---- MODULE Spec2Model ----
(***************************************************************************)
(* Model of the ad-generation workflow of src/index.tsx (component App).   *)
(*                                                                         *)
(* The state is the component's React state plus what is in flight: the    *)
(* FileReader reads started by handleImageUpload and the suspended         *)
(* invocations of generateAd.  A suspended invocation keeps the values its *)
(* closure captured when the trigger was clicked.                          *)
(*                                                                         *)
(* JavaScript strings are TLA+ strings.  The JavaScript value null (and    *)
(* undefined) of a string-or-null state cell is the sentinel Null; an      *)
(* object's optional field is absent from the record's DOMAIN.             *)
(***************************************************************************)
EXTENDS Integers, Sequences, FiniteSets, TLC

VARIABLES
  apiKey,          \* useState(process.env.API_KEY || "")
  title,           \* useState("")
  description,     \* useState("")
  platform,        \* useState(PLATFORMS[0])
  imageFile,       \* useState<File | null>(null): a file of Files, or Null
  imagePreview,    \* useState<string | null>(null)
  generatedImage,  \* useState<string | null>(null)
  loading,         \* useState(false)
  error,           \* useState("")
  reads,           \* preview FileReaders whose loadend has not fired yet
  attempts,        \* suspended invocations of generateAd
  last             \* history: the handler that ran last, with its input

vars == <<apiKey, title, description, platform, imageFile, imagePreview,
          generatedImage, loading, error, reads, attempts, last>>

inputs == <<apiKey, title, description, platform, imageFile, imagePreview, reads>>

-----------------------------------------------------------------------------
(* Bounds and the input sets the handlers draw from *)

\* Most preview reads pending at once.
MaxReads == 2

Null == "null"

\* The files the user can pick: name -> media type and base64 of the bytes.
Files == {"cover.png", "notes.txt"}

FileType(f) == IF f = "cover.png" THEN "image/png" ELSE "text/plain"

FileBase64(f) == IF f = "cover.png" THEN "iVBORw0KGgo=" ELSE "aGVsbG8="

Titles == {"", "Calm Days"}

Descriptions == {"", "A cozy companion"}

ApiKeys == {"", "k-123"}

PLATFORMS ==
  << [id |-> "story", name |-> "Instagram/Facebook Story", ratio |-> "9:16", icon |-> "fa-instagram"],
     [id |-> "feed", name |-> "Social Media Feed", ratio |-> "1:1", icon |-> "fa-square-share-nodes"],
     [id |-> "landscape", name |-> "Google Display / Web", ratio |-> "16:9", icon |-> "fa-google"] >>

\* What a rejected promise carries: the FileReader's error event has no
\* message; the service client's errors have one, possibly empty.
ProgressEvent == [type |-> "error"]

NetworkErrors == { [message |-> "Quota exceeded"], [message |-> ""] }

TextPart == [text |-> "I cannot create that image."]

InlinePart(d) == [inlineData |-> [data |-> d, mimeType |-> "image/png"]]

\* Replies of the image service: candidates, content and parts are optional.
Replies ==
  { [promptFeedback |-> "SAFETY"],
    [candidates |-> << >>],
    [candidates |-> << [finishReason |-> "SAFETY"] >>],
    [candidates |-> << [content |-> [role |-> "model"]] >>],
    [candidates |-> << [content |-> [parts |-> << >>]] >>],
    [candidates |-> << [content |-> [parts |-> << TextPart >>]] >>],
    [candidates |-> << [content |-> [parts |-> << InlinePart("AAAA") >>]] >>],
    [candidates |-> << [content |-> [parts |-> << TextPart, InlinePart("AAAA"), InlinePart("BBBB") >>]] >>],
    [candidates |-> << [content |-> [parts |-> << InlinePart("BBBB"), TextPart, InlinePart("AAAA") >>]] >>],
    [candidates |-> << [content |-> [parts |-> << TextPart >>]],
                       [content |-> [parts |-> << InlinePart("BBBB") >>]] >>] }

-----------------------------------------------------------------------------
(* String helpers *)

\* s.includes(t)
Contains(s, t) ==
  \E i \in 1..(Len(s) - Len(t) + 1) : SubSeq(s, i, i + Len(t) - 1) = t

\* The positions of "," in s.
Commas(s) == { i \in 1..Len(s) : SubSeq(s, i, i) = "," }

Min(S) == CHOOSE x \in S : \A y \in S : x <= y

\* s.split(",")[1]; Null when s has no comma (JavaScript's undefined).
SplitComma1(s) ==
  IF Commas(s) = {} THEN Null
  ELSE LET c1 == Min(Commas(s))
           rest == { i \in Commas(s) : i > c1 }
           c2 == IF rest = {} THEN Len(s) + 1 ELSE Min(rest)
       IN SubSeq(s, c1 + 1, c2 - 1)

\* FileReader.readAsDataURL(file), when the read succeeds.
ReadAsDataURL(f) == "data:" \o FileType(f) \o ";base64," \o FileBase64(f)

RemoveAt(s, i) == SubSeq(s, 1, i - 1) \o SubSeq(s, i + 1, Len(s))

-----------------------------------------------------------------------------
(* generateAd's pure parts *)

MissingInputMsg == "Please provide a book cover and a title."

MissingKeyMsg == "API Key is missing."

NoImageMsg == "No image generated. The model might have returned text instead."

FallbackMsg == "Failed to generate ad. Please try again."

\* The trigger disabled only while no image is held.
TriggerDisabled_IgnoresLoading == imageFile = Null

\* disabled={loading || !imageFile}
TriggerDisabled == loading \/ imageFile = Null

\* The validation without the title check.
InputsMissing_NoTitleCheck(file, t) == file = Null

\* !imageFile || !title
InputsMissing(file, t) == file = Null \/ t = ""

\* !apiKey
KeyMissing(k) == k = ""

\* resolve({ inlineData: { data: base64String, mimeType: file.type } })
GenerativePart(f) ==
  [inlineData |-> [data |-> SplitComma1(ReadAsDataURL(f)), mimeType |-> FileType(f)]]

DefaultVibe ==
  "The vibe should be serene, professional, and inspiring, suitable for a high-quality journal or planner."

VibeLead == "The ad should convey this message/vibe: "

Composition ==
  "Composition:\n"
  \o "      - Place the book naturally in a lifestyle setting (e.g., on a minimalist wooden desk with coffee, in a cozy reading nook, or held by a person in a soft-focus background).\n"
  \o "      - The lighting should be soft, golden-hour, or studio quality.\n"
  \o "      - Make it look like a premium social media ad for the brand 'Innerflue'.\n"
  \o "      - Do not add text overlays, just the visual photography.\n"
  \o "      - Ensure the book cover provided is clearly visible and integrated realistically (lighting, shadows, perspective)."

\* The description segment without its fallback.
Vibe_NoDefault(d) == VibeLead \o d \o "."

\* description ? `The ad should convey this message/vibe: ${description}.` : "The vibe ..."
Vibe(d) == IF d # "" THEN VibeLead \o d \o "." ELSE DefaultVibe

\* The template literal of the prompt.
ComposePrompt(p, t, d) ==
  "Create a stunning, high-quality static advertisement image optimized for "
  \o p.name \o ". \n"
  \o "      \n"
  \o "      Subject:\n"
  \o "      The centerpiece is the provided book cover for a book titled \"" \o t \o "\".\n"
  \o "      \n"
  \o "      Context & Vibe:\n"
  \o "      " \o Vibe(d) \o "\n"
  \o "      \n"
  \o "      " \o Composition

\* The argument of ai.models.generateContent.
BuildRequest(part, p, t, d) ==
  [model |-> "gemini-2.5-flash-image",
   contents |-> [parts |-> << part, [text |-> ComposePrompt(p, t, d)] >>],
   config |-> [imageConfig |-> [aspectRatio |-> p.ratio]]]

\* response.candidates?.[0]?.content?.parts is an array
HasParts(response) ==
  /\ "candidates" \in DOMAIN response
  /\ Len(response.candidates) >= 1
  /\ "content" \in DOMAIN response.candidates[1]
  /\ "parts" \in DOMAIN response.candidates[1].content

PartsOf(response) ==
  IF HasParts(response) THEN response.candidates[1].content.parts ELSE << >>

\* if (part.inlineData)
HasInlineData(part) == "inlineData" \in DOMAIN part

\* The loop without its break: the last part with inlineData wins.
FoundIndex_NoBreak(parts) ==
  CHOOSE i \in 1..Len(parts) :
    /\ HasInlineData(parts[i])
    /\ \A j \in 1..Len(parts) : HasInlineData(parts[j]) => j <= i

\* The part the for loop breaks on: the first one with inlineData.
FoundIndex(parts) ==
  Min({ i \in 1..Len(parts) : HasInlineData(parts[i]) })

\* foundImage after the loop
FoundImage(response) == \E i \in 1..Len(PartsOf(response)) : HasInlineData(PartsOf(response)[i])

\* `data:image/png;base64,${base64String}`
DataUri(base64String) == "data:image/png;base64," \o base64String

ExtractedImage(response) ==
  DataUri(PartsOf(response)[FoundIndex(PartsOf(response))].inlineData.data)

\* The catch block showing the generic message whatever was thrown.
ErrorMessage_AlwaysGeneric(err) == FallbackMsg

\* The catch block without the fallback: setError(err.message).
ErrorMessage_NoFallback(err) ==
  IF "message" \in DOMAIN err THEN err.message ELSE Null

\* err.message || "Failed to generate ad. Please try again."
ErrorMessage(err) ==
  IF "message" \in DOMAIN err /\ err.message # "" THEN err.message ELSE FallbackMsg

-----------------------------------------------------------------------------
(* Initial state: the first render *)

Init ==
  /\ apiKey \in ApiKeys
  /\ title = ""
  /\ description = ""
  /\ platform = PLATFORMS[1]
  /\ imageFile = Null
  /\ imagePreview = Null
  /\ generatedImage = Null
  /\ loading = FALSE
  /\ error = ""
  /\ reads = << >>
  /\ attempts = << >>
  /\ last = [op |-> "other"]

-----------------------------------------------------------------------------
(* Handlers *)

\* handleImageUpload: the change event of the file input, with or without a file.
HandleImageUpload(file) ==
  /\ IF file # Null
       THEN /\ Len(reads) < MaxReads
            /\ imageFile' = file
            /\ reads' = Append(reads, file)
       ELSE UNCHANGED <<imageFile, reads>>
  /\ last' = [op |-> "other"]
  /\ UNCHANGED <<apiKey, title, description, platform, imagePreview,
                 generatedImage, loading, error, attempts>>

\* reader.onloadend of a preview read: loadend fires after a successful read
\* (result is the data URL) and after a failed one (result is null).
PreviewLoadEnd(i, ok) ==
  /\ i \in 1..Len(reads)
  /\ imagePreview' = IF ok THEN ReadAsDataURL(reads[i]) ELSE Null
  /\ reads' = RemoveAt(reads, i)
  /\ last' = [op |-> "other"]
  /\ UNCHANGED <<apiKey, title, description, platform, imageFile,
                 generatedImage, loading, error, attempts>>

\* onChange of the title input
SetTitle(t) ==
  /\ title' = t
  /\ last' = [op |-> "other"]
  /\ UNCHANGED <<apiKey, description, platform, imageFile, imagePreview,
                 generatedImage, loading, error, reads, attempts>>

\* onChange of the description textarea
SetDescription(d) ==
  /\ description' = d
  /\ last' = [op |-> "other"]
  /\ UNCHANGED <<apiKey, title, platform, imageFile, imagePreview,
                 generatedImage, loading, error, reads, attempts>>

\* onClick of a platform button
SetPlatform(p) ==
  /\ platform' = p
  /\ last' = [op |-> "other"]
  /\ UNCHANGED <<apiKey, title, description, imageFile, imagePreview,
                 generatedImage, loading, error, reads, attempts>>

\* generateAd up to its first await: the click on the trigger button.
GenerateAd ==
  /\ ~TriggerDisabled
  /\ last' = [op |-> "generateAd"]
  /\ IF InputsMissing(imageFile, title)
       THEN /\ error' = MissingInputMsg
            /\ UNCHANGED <<loading, generatedImage, attempts>>
       ELSE IF KeyMissing(apiKey)
         THEN /\ error' = MissingKeyMsg
              /\ UNCHANGED <<loading, generatedImage, attempts>>
         ELSE /\ loading' = TRUE
              /\ error' = ""
              /\ generatedImage' = Null
              /\ attempts' = Append(attempts,
                   [pc |-> "encoding", apiKey |-> apiKey, imageFile |-> imageFile,
                    title |-> title, description |-> description,
                    platform |-> platform])
  /\ UNCHANGED inputs

\* The catch block without the finally: loading is never cleared on failure.
CatchFinally_NoFinally(err) ==
  /\ error' = ErrorMessage(err)
  /\ loading' = loading

\* catch (err) { setError(err.message || ...) } finally { setLoading(false) }
CatchFinally(err) ==
  /\ error' = ErrorMessage(err)
  /\ loading' = FALSE

\* fileToGenerativePart resolves: the prompt is composed from the closure's
\* values and generateContent is called.
EncodeResolve(i) ==
  /\ i \in 1..Len(attempts)
  /\ attempts[i].pc = "encoding"
  /\ LET a == attempts[i]
     IN attempts' = [attempts EXCEPT ![i] =
          [a EXCEPT !.pc = "requesting"] @@
          [request |-> BuildRequest(GenerativePart(a.imageFile), a.platform,
                                    a.title, a.description)]]
  /\ last' = [op |-> "other"]
  /\ UNCHANGED <<generatedImage, loading, error>>
  /\ UNCHANGED inputs

\* fileToGenerativePart rejects (reader.onerror = reject).
EncodeReject(i) ==
  /\ i \in 1..Len(attempts)
  /\ attempts[i].pc = "encoding"
  /\ CatchFinally(ProgressEvent)
  /\ attempts' = RemoveAt(attempts, i)
  /\ last' = [op |-> "rejected", err |-> ProgressEvent]
  /\ UNCHANGED generatedImage
  /\ UNCHANGED inputs

\* generateContent resolves with a reply: the image is extracted, or the
\* "no image" error is thrown and caught.
GenerateContentResolve(i, response) ==
  /\ i \in 1..Len(attempts)
  /\ attempts[i].pc = "requesting"
  /\ IF FoundImage(response)
       THEN /\ generatedImage' = ExtractedImage(response)
            /\ loading' = FALSE
            /\ UNCHANGED error
       ELSE /\ CatchFinally([message |-> NoImageMsg])
            /\ UNCHANGED generatedImage
  /\ attempts' = RemoveAt(attempts, i)
  /\ last' = [op |-> "reply", response |-> response]
  /\ UNCHANGED inputs

\* generateContent rejects.
GenerateContentReject(i, err) ==
  /\ i \in 1..Len(attempts)
  /\ attempts[i].pc = "requesting"
  /\ CatchFinally(err)
  /\ attempts' = RemoveAt(attempts, i)
  /\ last' = [op |-> "rejected", err |-> err]
  /\ UNCHANGED generatedImage
  /\ UNCHANGED inputs

\* onClick of the Reset button, rendered only when generatedImage is set.
Reset ==
  /\ generatedImage # Null
  /\ generatedImage' = Null
  /\ last' = [op |-> "reset"]
  /\ UNCHANGED <<loading, error, attempts>>
  /\ UNCHANGED inputs

Next ==
  \/ \E file \in Files \cup {Null} : HandleImageUpload(file)
  \/ \E i \in 1..Len(reads), ok \in BOOLEAN : PreviewLoadEnd(i, ok)
  \/ \E t \in Titles : SetTitle(t)
  \/ \E d \in Descriptions : SetDescription(d)
  \/ \E n \in 1..Len(PLATFORMS) : SetPlatform(PLATFORMS[n])
  \/ GenerateAd
  \/ \E i \in 1..Len(attempts) : EncodeResolve(i)
  \/ \E i \in 1..Len(attempts) : EncodeReject(i)
  \/ \E i \in 1..Len(attempts), response \in Replies : GenerateContentResolve(i, response)
  \/ \E i \in 1..Len(attempts), err \in NetworkErrors : GenerateContentReject(i, err)
  \/ Reset

Spec == Init /\ [][Next]_vars

\* The fairness the event loop gives: a started file read fires its
\* loadend or error event, and a sent request resolves or rejects.
LiveSpec ==
  /\ Spec
  /\ WF_vars(\E i \in 1..Len(attempts) : EncodeReject(i) \/ EncodeResolve(i))
  /\ WF_vars(\E i \in 1..Len(attempts) :
               \/ \E err \in NetworkErrors : GenerateContentReject(i, err)
               \/ \E response \in Replies : GenerateContentResolve(i, response))

-----------------------------------------------------------------------------
(* Properties *)

\* The first candidate's parts of a reply that has them, read field by field.
FirstCandidateParts(r) == r.candidates[1].content.parts

HasFirstCandidateParts(r) ==
  /\ "candidates" \in DOMAIN r
  /\ r.candidates # << >>
  /\ "content" \in DOMAIN r.candidates[1]
  /\ "parts" \in DOMAIN r.candidates[1].content

\* No part of any candidate of the reply carries inline image data.
NoInlineDataAnywhere(r) ==
  "candidates" \in DOMAIN r =>
    \A c \in 1..Len(r.candidates) :
      ("content" \in DOMAIN r.candidates[c] /\ "parts" \in DOMAIN r.candidates[c].content) =>
        \A k \in 1..Len(r.candidates[c].content.parts) :
          "inlineData" \notin DOMAIN r.candidates[c].content.parts[k]

\* C1: a request is sent only for an invocation of generateAd that found an
\* image file, a non-empty title and a non-empty API key; an invocation that
\* finds one missing ends with the missing-input or the missing-key message
\* and starts nothing that could send a request.
C1_ValidationBeforeNetwork ==
  /\ \A i \in 1..Len(attempts) :
       /\ attempts[i].imageFile # Null
       /\ attempts[i].title # ""
       /\ attempts[i].apiKey # ""
  /\ (last.op = "generateAd" /\ (imageFile = Null \/ title = ""))
       => (error = MissingInputMsg /\ attempts = << >> /\ ~loading)
  /\ (last.op = "generateAd" /\ imageFile # Null /\ title # "" /\ apiKey = "")
       => (error = MissingKeyMsg /\ attempts = << >> /\ ~loading)

C1_Witness ==
  /\ last.op = "generateAd"
  /\ title = ""
  /\ apiKey # ""
  /\ error = MissingInputMsg

\* C2: at most one invocation of generateAd is suspended at any time, and
\* the trigger is disabled whenever no image is held or one is suspended.
C2_SingleAttemptInFlight ==
  /\ Len(attempts) <= 1
  /\ (imageFile = Null \/ attempts # << >>) => TriggerDisabled

C2_Witness ==
  /\ Len(attempts) = 1
  /\ attempts[1].pc = "requesting"
  /\ attempts[1].title # title
  /\ attempts[1].imageFile # imageFile
  /\ reads # << >>

\* C3: a generated image and a non-empty error message are never held
\* together.
C3_ImageOrErrorNeverBoth == ~(generatedImage # Null /\ error # "")

\* C4: after a reply whose first candidate's parts include one with inline
\* data, the generated image is the PNG data URI of the first such part's
\* data, no error is shown and the attempt is over.
C4_FirstInlineImageWins ==
  (last.op = "reply" /\ HasFirstCandidateParts(last.response)
     /\ \E k \in 1..Len(FirstCandidateParts(last.response)) :
          "inlineData" \in DOMAIN FirstCandidateParts(last.response)[k])
  => LET parts == FirstCandidateParts(last.response)
     IN /\ \E k \in 1..Len(parts) :
             /\ "inlineData" \in DOMAIN parts[k]
             /\ \A j \in 1..(k - 1) : "inlineData" \notin DOMAIN parts[j]
             /\ generatedImage = "data:image/png;base64," \o parts[k].inlineData.data
        /\ error = ""
        /\ ~loading
        /\ attempts = << >>

C4_Witness ==
  /\ last.op = "reply"
  /\ last.response =
       [candidates |-> << [content |-> [parts |-> << TextPart, InlinePart("AAAA"), InlinePart("BBBB") >>]] >>]
  /\ generatedImage = "data:image/png;base64,AAAA"

\* C5: after a reply with no inline image data in it, the "no image
\* generated" message is shown, no image is held and the attempt is over.
C5_NoImageReturned ==
  (last.op = "reply" /\ NoInlineDataAnywhere(last.response))
  => /\ error = NoImageMsg
     /\ generatedImage = Null
     /\ ~loading
     /\ attempts = << >>

C5_Witness ==
  /\ last.op = "reply"
  /\ last.response = [candidates |-> << [content |-> [parts |-> << TextPart >>]] >>]
  /\ error = NoImageMsg

\* C6: after the file encoding or the network call rejects, no image is
\* held, the attempt is over and the error shown is the failure's message
\* when it has a non-empty one and the generic message otherwise; and while
\* no attempt is in flight none appears except by a click on the trigger.
C6_RejectionIsTerminal ==
  /\ [](last.op = "rejected" =>
          /\ generatedImage = Null
          /\ ~loading
          /\ attempts = << >>
          /\ error = IF "message" \in DOMAIN last.err /\ last.err.message # ""
                       THEN last.err.message
                       ELSE "Failed to generate ad. Please try again.")
  /\ [][(attempts = << >> /\ last'.op # "generateAd") => attempts' = << >>]_vars

C6_Witness ==
  /\ last.op = "rejected"
  /\ "message" \in DOMAIN last.err
  /\ last.err.message = ""
  /\ error = FallbackMsg

\* C7: a reset leaves no image, no error message and no outstanding
\* request, and keeps the image file, title, description and platform.
C7_ResetReturnsToIdle ==
  [][(last'.op = "reset" /\ last.op # "reset") =>
       /\ generatedImage' = Null
       /\ error' = ""
       /\ loading' = FALSE
       /\ attempts' = << >>
       /\ UNCHANGED <<imageFile, title, description, platform>>]_vars

\* C8: the prompt of every request sent contains the display name of the
\* platform and the title that the invocation captured, and the captured
\* description when it is non-empty, or else the default sentence and no
\* description lead-in.
C8_PromptFromCapturedInputs ==
  \A i \in 1..Len(attempts) :
    attempts[i].pc = "requesting" =>
      LET a == attempts[i]
          prompt == a.request.contents.parts[2].text
      IN /\ Contains(prompt, a.platform.name)
         /\ Contains(prompt, a.title)
         /\ a.description # "" =>
              /\ Contains(prompt, a.description)
              /\ ~Contains(prompt, DefaultVibe)
         /\ a.description = "" =>
              /\ Contains(prompt, DefaultVibe)
              /\ ~Contains(prompt, VibeLead)

C8_Witness ==
  /\ Len(attempts) = 1
  /\ attempts[1].pc = "requesting"
  /\ attempts[1].description = ""
  /\ description # ""
  /\ title = ""
  /\ platform # attempts[1].platform

\* C9: while loading is set neither an image nor an error is held, and
\* every attempt that set loading leads to loading cleared with either an
\* image and no error, or an error and no image.
C9_AttemptResolves ==
  /\ [](loading => (generatedImage = Null /\ error = "" /\ Len(attempts) = 1))
  /\ loading ~> (/\ ~loading
                 /\ \/ (generatedImage # Null /\ error = "")
                    \/ (generatedImage = Null /\ error # ""))

C9_Witness ==
  /\ last.op = "reply"
  /\ ~loading
  /\ generatedImage # Null
  /\ error = ""

\* C10: when no preview read is pending, a displayed preview is the data
\* URL of the image file held.
C10_PreviewIsHeldFile ==
  (reads = << >> /\ imageFile # Null /\ imagePreview # Null)
    => imagePreview = ReadAsDataURL(imageFile)

====
